---- MODULE Spec2Model ----
(***************************************************************************)
(* Model of the seeding-reward bot: the periodic seeding tick              *)
(* (glowbot/tasks.py, BotTasks.update_seeders) and the slash commands      *)
(* register and claim (seeding_reward_bot/commands.py, BotCommands).       *)
(*                                                                         *)
(* Ledger durations (seeding_time_balance, total_seeding_time) are counted *)
(* in minutes.  Instants (privilege expirations, the clock) are counted in *)
(* half-steps of a minute: 2*m is the instant m minutes after the Unix     *)
(* epoch with no sub-second part, 2*m+1 is an instant of the same minute   *)
(* and second with a non-zero sub-second part.  Every await of the code is *)
(* the end of one step, so that other coroutines run between two steps.    *)
(* The fields player_name and last_seed_check are written but never read   *)
(* by the code and are left out of the records.                            *)
(***************************************************************************)
EXTENDS Integers, Sequences, FiniteSets, TLC

\* ------------------------------------------------------------------ bounds
MaxTicks == 2
MaxCommands == 2

\* --------------------------------------------------------------- constants
SEEDING_INCREMENT_TIMER == 3
SeedingThreshold == 2
SeederVipRewardHours == 1
MinutesPerHour == 60
MinutesPerDay == 24 * MinutesPerHour
\* datetime(year=2200, month=1, day=1, tzinfo=utc): 120968640 minutes after
\* the epoch.
NonExpiring == 2 * 120968640
\* datetime.now(timezone.utc): an instant with a sub-second part.
Now == 2 * 29870000 + 1
Hours(h) == 2 * MinutesPerHour * h

None == "None"
\* A privilege as a server reports it: no record, or an expiration.
NoVip == [present |-> FALSE, vip_expiration |-> 0]
Expires(t) == [present |-> TRUE, vip_expiration |-> t]
S1 == <<1, 1>>
S2 == <<1, 2>>
\* A string a caller may type into /hll register: no check is made that it is
\* a 17-digit id, and this one holds both real ids as substrings.
SLong == <<1, 1, 2>>
PlayerIds == {S1, S2}
RegisterInputs == {S1, SLong}
DiscordIds == {"d1", "d2"}
Servers == <<"e1", "e2">>
ServerSet == {Servers[i] : i \in 1..Len(Servers)}
\* hours: Option(int): any integer, None when left out.
HoursInputs == {-1, 0, 1, 2}

\* ------------------------------------------------------------------ helpers
\* timedelta.seconds: the seconds of the duration within its day
\* (0 <= seconds < 86400), the whole days being kept in timedelta.days.
TimedeltaSeconds(minutes) == (minutes % MinutesPerDay) * 60

\* steam_id_64__contains: the stored id holds the given one as a substring.
SteamContains(stored, given) ==
    \E i \in 0..(Len(stored) - Len(given)) :
        SubSeq(stored, i + 1, i + Len(given)) = given

Rows(d) == 1..Len(d)

\* A first sighting credited with the increment.
NewSeederCredited(steam) ==
    [id |-> 0, steam_id_64 |-> steam, discord_id |-> None,
     seeding_time_balance |-> SEEDING_INCREMENT_TIMER,
     total_seeding_time |-> SEEDING_INCREMENT_TIMER]

\* HLL_Player(...) as the tick builds it on first sighting.
NewSeeder(steam) ==
    [id |-> 0, steam_id_64 |-> steam, discord_id |-> None,
     seeding_time_balance |-> 0, total_seeding_time |-> 0]

\* No record loaded.
NoPlayer ==
    [id |-> 0, steam_id_64 |-> <<>>, discord_id |-> None,
     seeding_time_balance |-> 0, total_seeding_time |-> 0]

\* The columns of an object, as save() writes them.
Columns(p) ==
    [steam_id_64 |-> p.steam_id_64, discord_id |-> p.discord_id,
     seeding_time_balance |-> p.seeding_time_balance,
     total_seeding_time |-> p.total_seeding_time]

\* A row as the object a query returns.
Loaded(d, i) ==
    [id |-> i, steam_id_64 |-> d[i].steam_id_64, discord_id |-> d[i].discord_id,
     seeding_time_balance |-> d[i].seeding_time_balance,
     total_seeding_time |-> d[i].total_seeding_time]

\* Model.save(): INSERT for an object never saved, UPDATE of every column of
\* its row otherwise.
Saved(d, p) ==
    IF p.id = 0 THEN Append(d, Columns(p))
    ELSE [d EXCEPT ![p.id] = Columns(p)]

VARIABLES
    db,            \* the table of HLL_Player rows
    vip,           \* vip[server][steam]: the expiration the server holds, or None
    allowMessage,  \* global_config allow_seeder_reward_message
    window,        \* global_config seeding_start_time_utc, seeding_end_time_utc
    gate,          \* what the gating check of the latest tick did
    tickPc, tickWork, seeder, old_seed_balance, ticks,
    claim,         \* claim[c]: one /hll claim invocation and its local variables
    reg,           \* reg[r]: one /hll register invocation and its local variables
    commands       \* commands received so far

vars == <<db, vip, allowMessage, window, gate, tickPc, tickWork, seeder, old_seed_balance,
          ticks, claim, reg, commands>>

cmdVars == <<claim, reg, commands>>

tickVars == <<tickPc, tickWork, seeder, old_seed_balance, ticks>>

\* ------------------------------------------------------------------- tick
\* The answers of get_player_list() the model draws from: the first server
\* full, one player seeding on the first server, and the same player listed
\* by both servers.
Poll(a, b) == [e \in ServerSet |-> IF e = Servers[1] THEN a ELSE b]
PollResults == {Poll(<<S1, S2>>, <<>>), Poll(<<S1>>, <<>>), Poll(<<S1>>, <<S1>>)}

\* len(player_list) < seeding_threshold
IsSeeding(player_list) == Len(player_list) < SeedingThreshold

RECURSIVE WorkOf(_, _)
\* The (server, player) pairs the two nested loops visit, in order.
WorkOf(result, i) ==
    IF i > Len(Servers) THEN <<>>
    ELSE LET list == result[Servers[i]]
             here == IF IsSeeding(list)
                     THEN [k \in 1..Len(list) |->
                              [server |-> Servers[i], steam_id_64 |-> list[k]]]
                     ELSE <<>>
         IN  here \o WorkOf(result, i + 1)

\* new_hourly, old_hourly: divmod(divmod(balance.seconds, 60)[0], 60)[0]
Hourly(balance) == (TimedeltaSeconds(balance) \div 60) \div 60

\* new_hourly > old_hourly
GainedHour(new, old) == Hourly(new) > Hourly(old)

\* The loop moves on to the next player (or the tick ends).
NextPlayer ==
    /\ tickWork' = Tail(tickWork)
    /\ tickPc' = IF Tail(tickWork) = <<>> THEN "idle" ELSE "query"
    /\ seeder' = NoPlayer
    /\ old_seed_balance' = 0

\* A window bound as the configuration holds it: no value, a string that is
\* not a time, or the ISO string of a time of day.
Unset == [kind |-> "None", at |-> 0]
Unparsable == [kind |-> "malformed", at |-> 0]
At(t) == [kind |-> "time", at |-> t]
TimesOfDay == 0..3
BoundValues == {Unset, Unparsable} \cup {At(t) : t \in TimesOfDay}

\* time.fromisoformat(s): TypeError for a value that is no string, ValueError
\* for a string that is no time.
FromIsoFormat(s) ==
    IF s.kind = "None" THEN "TypeError"
    ELSE IF s.kind = "malformed" THEN "ValueError"
    ELSE "time"

\* The two conversions in the order of the code: the first that raises ends
\* the try block.
Raised(w) ==
    IF FromIsoFormat(w.start) # "time" THEN FromIsoFormat(w.start)
    ELSE IF FromIsoFormat(w.end) # "time" THEN FromIsoFormat(w.end)
    ELSE None

\* The window taken as closed at both ends when it crosses midnight.
is_now_closed(start, end, now) ==
    IF start <= end THEN start <= now /\ now <= end
    ELSE start <= now \/ now <= end

is_now(start, end, now) ==
    IF start <= end THEN start <= now /\ now <= end
    ELSE start <= now \/ now < end

\* The gating check has not run, or ran without reading the clock.
NoClock == 0 - 1
NoGate == [outcome |-> "none", time_now |-> NoClock, logged |-> None]

\* A ValueError that is passed over like a TypeError.
LoggedNever(raised) == None

\* except ValueError: self.logger.error(...); except TypeError: pass
Logged(raised) == IF raised = "ValueError" THEN "cant_set_seeding_hours" ELSE None

\* What the gating check can come to: outside the window at some time of
\* day, or the tick goes on (inside the window, or the check was given up).
Gatings ==
    IF Raised(window) = None
    THEN {[outcome |-> IF is_now(window.start.at, window.end.at, t)
                       THEN "inside" ELSE "outside",
           time_now |-> t, logged |-> None] : t \in TimesOfDay}
    ELSE {[outcome |-> "given_up", time_now |-> NoClock,
           logged |-> Logged(Raised(window))]}

\* if not is_now(...): the presence is set to idle and the tick returns.
TickGated ==
    /\ tickPc = "idle"
    /\ ticks < MaxTicks
    /\ \E g \in Gatings :
          /\ g.outcome = "outside"
          /\ gate' = g
    /\ ticks' = ticks + 1
    /\ UNCHANGED <<db, vip, allowMessage, window, tickPc, tickWork, seeder,
                   old_seed_balance, cmdVars>>

\* The gating check lets the tick on, and
\* result = await self.client.get_player_list()
TickPoll ==
    /\ tickPc = "idle"
    /\ ticks < MaxTicks
    /\ \E g \in Gatings :
          /\ g.outcome # "outside"
          /\ gate' = g
    /\ \E result \in PollResults :
          LET work == WorkOf(result, 1)
          IN  /\ tickWork' = work
              /\ tickPc' = IF work = <<>> THEN "idle" ELSE "query"
    /\ ticks' = ticks + 1
    /\ UNCHANGED <<db, vip, allowMessage, window, seeder, old_seed_balance,
                   cmdVars>>

\* seeder_query = await HLL_Player.filter(steam_id_64__contains=...)
TickQuery ==
    /\ tickPc = "query"
    /\ LET steam == Head(tickWork).steam_id_64
           seeder_query == {i \in Rows(db) : SteamContains(db[i].steam_id_64, steam)}
       IN  IF seeder_query = {}
           THEN /\ seeder' = NewSeeder(steam)
                /\ old_seed_balance' = 0
                /\ tickPc' = "create"
                /\ UNCHANGED tickWork
           ELSE IF Cardinality(seeder_query) # 1
           THEN NextPlayer
           ELSE LET s == Loaded(db, CHOOSE i \in seeder_query : TRUE)
                IN  /\ old_seed_balance' = s.seeding_time_balance
                    /\ seeder' =
                         [s EXCEPT
                            !.seeding_time_balance = @ + SEEDING_INCREMENT_TIMER,
                            !.total_seeding_time = @ + SEEDING_INCREMENT_TIMER]
                    /\ tickPc' = "save"
                    /\ UNCHANGED tickWork
    /\ UNCHANGED <<db, vip, allowMessage, window, gate, ticks, cmdVars>>

\* await s.save() of a new record: an exception leaves the loop body and
\* ends the task.
TickCreate ==
    /\ tickPc = "create"
    /\ \/ /\ db' = Saved(db, seeder)
          /\ NextPlayer
       \/ /\ tickPc' = "stopped"
          /\ tickWork' = <<>>
          /\ seeder' = NoPlayer
          /\ old_seed_balance' = 0
          /\ UNCHANGED db
    /\ UNCHANGED <<vip, allowMessage, window, gate, ticks, cmdVars>>

\* The reward check that follows the save, whether the save succeeded or not.
AfterSave ==
    IF allowMessage /\ GainedHour(seeder.seeding_time_balance, old_seed_balance)
    THEN /\ tickPc' = "message"
         /\ UNCHANGED <<tickWork, seeder, old_seed_balance>>
    ELSE NextPlayer

\* try: await seeder.save() except Exception: log
TickSave ==
    /\ tickPc = "save"
    /\ \/ db' = Saved(db, seeder)
       \/ UNCHANGED db
    /\ AfterSave
    /\ UNCHANGED <<vip, allowMessage, window, gate, ticks, cmdVars>>

\* msg_result = await self.client.send_player_message(...)
TickMessage ==
    /\ tickPc = "message"
    /\ NextPlayer
    /\ UNCHANGED <<db, vip, allowMessage, window, gate, ticks, cmdVars>>


\* ------------------------------------------------------------------ claim
ClaimSlots == 1..2
RegSlots == 1..2

IdleClaim ==
    [pc |-> "idle", n |-> 0, caller |-> None, hours |-> 0, player |-> NoPlayer,
     vip |-> NoVip, expiration |-> 0, granted |-> {}, refused |-> {},
     logged |-> None, reply |-> None]

IdleReg ==
    [pc |-> "idle", n |-> 0, caller |-> None, steam64 |-> <<>>, player |-> NoPlayer,
     reply |-> None]

Free(slot) == slot.pc \in {"idle", "done"}

\* await ctx.respond(...) and return: the locals of the invocation are gone.
Replied(slot, reply) ==
    [IdleClaim EXCEPT !.pc = "done", !.n = slot.n, !.caller = slot.caller,
                      !.hours = slot.hours, !.reply = reply]

\* A command is taken by the lowest slot that is free.
Lowest(slots, k) == Free(slots[k]) /\ \A j \in 1..(k - 1) : ~Free(slots[j])

\* get_player_by_discord_id(discord_id): the rows linked to the caller.
PlayersByDiscordId(d, discord) == {i \in Rows(d) : d[i].discord_id = discord}

\* The balance taken in minutes where hours are meant.
NotEnoughBankedInMinutes(hours, balance) == hours > TimedeltaSeconds(balance) \div 60

\* hours > player.seeding_time_balance.seconds // 3600
NotEnoughBanked(hours, balance) == hours > TimedeltaSeconds(balance) \div 3600

\* all(val != vip_entries[0] for val in vip_entries)
AllDiffer(vip_entries) ==
    \A k \in 1..Len(vip_entries) : vip_entries[k] # vip_entries[1]

\* vip_entries.pop(): the last entry of the list.
Pop(vip_entries) == vip_entries[Len(vip_entries)]

\* vip_dict.items() in the order of the servers.
VipEntries(steam) == [k \in 1..Len(Servers) |-> vip[Servers[k]][steam]]

\* An expired privilege kept as the base.
ExpirationFromCurrent(v, hours, now) ==
    IF ~v.present THEN now + Hours(SeederVipRewardHours * hours)
    ELSE v.vip_expiration + Hours(SeederVipRewardHours * hours)

\* The expiration a claim computes (lines 181-191).
Expiration(v, hours, now) ==
    LET grant_value == SeederVipRewardHours * hours
    IN  IF ~v.present
        THEN now + Hours(grant_value)
        ELSE LET cur_expiration ==
                     IF v.vip_expiration < now THEN now ELSE v.vip_expiration
             IN  cur_expiration + Hours(grant_value)

\* expiration >= datetime(year=2200, month=1, day=1)
DoesNotExpire(expiration) == expiration >= NonExpiring

\* expiration.strftime('%Y-%m-%dT%H:%M:%S%z'): the sub-second part is dropped.
Strftime(expiration) == expiration - (expiration % 2)

\* /hll claim with no hours: the usage text.
ClaimUsage(c) ==
    /\ Lowest(claim, c)
    /\ commands < MaxCommands
    /\ commands' = commands + 1
    /\ claim' = [claim EXCEPT ![c] =
                    [IdleClaim EXCEPT !.pc = "done", !.n = commands + 1,
                                      !.reply = "usage"]]
    /\ UNCHANGED <<db, vip, allowMessage, window, gate, tickVars, reg>>

\* player = await get_player_by_discord_id(ctx.author.id), and the balance check.
ClaimLookup(c) ==
    /\ Lowest(claim, c)
    /\ commands < MaxCommands
    /\ commands' = commands + 1
    /\ \E caller \in DiscordIds, hours \in HoursInputs :
          LET start == [IdleClaim EXCEPT !.n = commands + 1, !.caller = caller,
                                         !.hours = hours]
              found == PlayersByDiscordId(db, caller)
          IN  IF found = {}
              THEN claim' = [claim EXCEPT ![c] =
                               [start EXCEPT !.pc = "done", !.reply = "not_registered"]]
              ELSE \E i \in found :
                     LET player == Loaded(db, i)
                     IN  IF NotEnoughBanked(hours, player.seeding_time_balance)
                         THEN claim' = [claim EXCEPT ![c] =
                                  [start EXCEPT !.pc = "done", !.player = player,
                                                !.reply = "not_enough"]]
                         ELSE claim' = [claim EXCEPT ![c] =
                                  [start EXCEPT !.pc = "get_vip", !.player = player]]
    /\ UNCHANGED <<db, vip, allowMessage, window, gate, tickVars, reg>>

\* vip_dict = await self.client.get_vip(...), the comparison of the entries
\* and the computation of the expiration.
ClaimGetVip(c) ==
    /\ claim[c].pc = "get_vip"
    /\ LET vip_entries == VipEntries(claim[c].player.steam_id_64)
       IN  IF AllDiffer(vip_entries)
           THEN claim' = [claim EXCEPT ![c] = Replied(claim[c], "different")]
           ELSE LET v == Pop(vip_entries)
                    expiration == Expiration(v, claim[c].hours, Now)
                IN  claim' = [claim EXCEPT
                        ![c].vip = v,
                        ![c].expiration = expiration,
                        ![c].pc = IF DoesNotExpire(expiration) THEN "save" ELSE "grant",
                        ![c].reply = IF DoesNotExpire(expiration) THEN "does_not_expire"
                                     ELSE None]
    /\ UNCHANGED <<db, vip, allowMessage, window, gate, tickVars, reg, commands>>

\* The first server of result_dict whose result is False, if any.
FirstRefused(refused) ==
    IF refused = {} THEN None
    ELSE Servers[CHOOSE k \in 1..Len(Servers) :
                    /\ Servers[k] \in refused
                    /\ \A j \in 1..(k - 1) : Servers[j] \notin refused]

\* player.seeding_time_balance -= timedelta(hours=hours)
Spend(player, hours) ==
    [player EXCEPT !.seeding_time_balance = @ - MinutesPerHour * hours]

\* A refusal that goes unnoticed.
GrantFailedUnnoticed(refused) == FALSE

\* for rcon, result in result_dict.items(): if result is False
GrantFailed(refused) == refused # {}

\* result_dict = await self.client.grant_vip(...): each server sets the
\* expiration or refuses; the first refusal found is logged and ends the
\* claim, otherwise the balance of the loaded record is reduced.
ClaimGrant(c) ==
    /\ claim[c].pc = "grant"
    /\ \E granted \in SUBSET ServerSet :
          LET refused == ServerSet \ granted
              steam == claim[c].player.steam_id_64
          IN  /\ vip' = [e \in ServerSet |->
                           IF e \in granted
                           THEN [vip[e] EXCEPT ![steam] =
                                    Expires(Strftime(claim[c].expiration))]
                           ELSE vip[e]]
              /\ IF GrantFailed(refused)
                 THEN claim' = [claim EXCEPT
                         ![c].granted = granted, ![c].refused = refused,
                         ![c].logged = FirstRefused(refused),
                         ![c].pc = "done", ![c].reply = "problem"]
                 ELSE claim' = [claim EXCEPT
                         ![c].granted = granted, ![c].refused = refused,
                         ![c].player = Spend(claim[c].player, claim[c].hours),
                         ![c].pc = "save", ![c].reply = "added"]
    /\ UNCHANGED <<db, allowMessage, window, gate, tickVars, reg, commands>>

\* await player.save(), on both branches, and the reply.
ClaimSave(c) ==
    /\ claim[c].pc = "save"
    /\ db' = Saved(db, claim[c].player)
    /\ claim' = [claim EXCEPT ![c] = Replied(claim[c], claim[c].reply)]
    /\ UNCHANGED <<vip, allowMessage, window, gate, tickVars, reg, commands>>

\* --------------------------------------------------------------- register
\* HLL_Player(...) as register builds it.
NewPlayer(steam64, discord) ==
    [id |-> 0, steam_id_64 |-> steam64, discord_id |-> discord,
     seeding_time_balance |-> 0, total_seeding_time |-> 0]

\* The link taken without looking at the owner.
UnlinkedOrNot(player) == TRUE

\* if player.discord_id is None
Unlinked(player) == player.discord_id = None

\* query_result = await HLL_Player.filter(steam_id_64=steam64), and the branches.
RegisterQuery(r) ==
    /\ Lowest(reg, r)
    /\ commands < MaxCommands
    /\ commands' = commands + 1
    /\ \E caller \in DiscordIds, steam64 \in RegisterInputs :
          LET start == [IdleReg EXCEPT !.n = commands + 1, !.caller = caller,
                                       !.steam64 = steam64]
              query_result == {i \in Rows(db) : db[i].steam_id_64 = steam64}
          IN  IF Cardinality(query_result) > 1
              THEN reg' = [reg EXCEPT ![r] =
                             [start EXCEPT !.pc = "done", !.reply = "multiple"]]
              ELSE IF query_result = {}
              THEN reg' = [reg EXCEPT ![r] =
                             [start EXCEPT !.pc = "save",
                                           !.player = NewPlayer(steam64, caller)]]
              ELSE LET player == Loaded(db, CHOOSE i \in query_result : TRUE)
                   IN  IF Unlinked(player)
                       THEN reg' = [reg EXCEPT ![r] =
                               [start EXCEPT !.pc = "save",
                                             !.player = [player EXCEPT
                                                            !.discord_id = caller]]]
                       ELSE IF player.discord_id = caller
                       THEN reg' = [reg EXCEPT ![r] =
                               [start EXCEPT !.pc = "done", !.player = player,
                                             !.reply = "already_yours"]]
                       ELSE reg' = [reg EXCEPT ![r] =
                               [start EXCEPT !.pc = "done", !.player = player,
                                             !.reply = "someone_else"]]
    /\ UNCHANGED <<db, vip, allowMessage, window, gate, tickVars, claim>>

\* await player.save() of the new or the linked record, and the reply.
RegisterSave(r) ==
    /\ reg[r].pc = "save"
    /\ db' = Saved(db, reg[r].player)
    /\ reg' = [reg EXCEPT ![r].pc = "done", ![r].reply = "registered"]
    /\ UNCHANGED <<vip, allowMessage, window, gate, tickVars, claim, commands>>

\* ------------------------------------------------------------------- init
Past == Now - 1 - Hours(1)
Future == Now + 1 + Hours(1)
Scenario(a, b) == [e \in ServerSet |-> IF e = Servers[1] THEN a ELSE b]
Registered(balance) ==
    <<[steam_id_64 |-> S1, discord_id |-> "d1",
       seeding_time_balance |-> balance, total_seeding_time |-> balance]>>

\* The table, what the two servers hold for its player and the setting of
\* allow_seeder_reward_message when the model starts: an empty table, or one
\* registered player whose balance some number of earlier ticks has built up.
InitScenarios ==
    {<< << >>, Scenario(NoVip, NoVip), TRUE >>,
     <<Registered(57), Scenario(NoVip, NoVip), TRUE>>,
     <<Registered(57), Scenario(NoVip, NoVip), FALSE>>,
     <<Registered(180), Scenario(NoVip, NoVip), TRUE>>,
     <<Registered(180), Scenario(Expires(Future), NoVip), TRUE>>,
     <<Registered(180), Scenario(Expires(NonExpiring), Expires(NonExpiring)), TRUE>>,
     <<Registered(180), Scenario(Expires(NonExpiring - Hours(1)),
                                 Expires(NonExpiring - Hours(1))), TRUE>>,
     <<Registered(1437), Scenario(Expires(Past), Expires(Past)), TRUE>>,
     <<Registered(1500), Scenario(Expires(Future), Expires(Future)), TRUE>>}

\* The windows the scenarios start with: none configured, or one that crosses
\* midnight.
NoWindow == [start |-> Unset, end |-> Unset]
Windows == {NoWindow, [start |-> At(2), end |-> At(1)]}

Init ==
    /\ \E sc \in InitScenarios :
          /\ db = sc[1]
          /\ allowMessage = sc[3]
          /\ window \in (IF sc[1] = << >> THEN Windows ELSE {NoWindow})
          /\ vip = [e \in ServerSet |->
                      [s \in RegisterInputs |-> IF s = S1 THEN sc[2][e] ELSE NoVip]]
    /\ gate = NoGate
    /\ tickPc = "idle"
    /\ tickWork = <<>>
    /\ seeder = NoPlayer
    /\ old_seed_balance = 0
    /\ ticks = 0
    /\ claim = [c \in ClaimSlots |-> IdleClaim]
    /\ reg = [r \in RegSlots |-> IdleReg]
    /\ commands = 0

Next ==
    \/ TickGated
    \/ TickPoll
    \/ TickQuery
    \/ TickCreate
    \/ TickSave
    \/ TickMessage
    \/ \E c \in ClaimSlots : ClaimUsage(c)
    \/ \E c \in ClaimSlots : ClaimLookup(c)
    \/ \E c \in ClaimSlots : ClaimGetVip(c)
    \/ \E c \in ClaimSlots : ClaimGrant(c)
    \/ \E c \in ClaimSlots : ClaimSave(c)
    \/ \E r \in RegSlots : RegisterQuery(r)
    \/ \E r \in RegSlots : RegisterSave(r)

Spec == Init /\ [][Next]_vars

\* No coroutine is between two awaits.
Quiet ==
    /\ tickPc \in {"idle", "stopped"}
    /\ \A c \in ClaimSlots : Free(claim[c])
    /\ \A r \in RegSlots : Free(reg[r])

\* The handlers run one at a time: none starts while another is suspended.
NextSeq ==
    \/ Quiet /\ TickGated
    \/ Quiet /\ TickPoll
    \/ TickQuery
    \/ TickCreate
    \/ TickSave
    \/ TickMessage
    \/ \E c \in ClaimSlots : Quiet /\ ClaimUsage(c)
    \/ \E c \in ClaimSlots : Quiet /\ ClaimLookup(c)
    \/ \E c \in ClaimSlots : ClaimGetVip(c)
    \/ \E c \in ClaimSlots : ClaimGrant(c)
    \/ \E c \in ClaimSlots : ClaimSave(c)
    \/ \E r \in RegSlots : Quiet /\ RegisterQuery(r)
    \/ \E r \in RegSlots : RegisterSave(r)

SpecSeq == Init /\ [][NextSeq]_vars

\* The tick alone, under every configuration of the window and of the reward
\* message, on an empty table or one that holds a record.
InitTick ==
    /\ db \in {<< >>, Registered(57)}
    /\ allowMessage \in BOOLEAN
    /\ window \in [start : BoundValues, end : BoundValues]
    /\ vip = [e \in ServerSet |-> [s \in RegisterInputs |-> NoVip]]
    /\ gate = NoGate
    /\ tickPc = "idle"
    /\ tickWork = <<>>
    /\ seeder = NoPlayer
    /\ old_seed_balance = 0
    /\ ticks = 0
    /\ claim = [c \in ClaimSlots |-> IdleClaim]
    /\ reg = [r \in RegSlots |-> IdleReg]
    /\ commands = 0

NextTick ==
    \/ TickGated
    \/ TickPoll
    \/ TickQuery
    \/ TickCreate
    \/ TickSave
    \/ TickMessage

SpecTick == InitTick /\ [][NextTick]_vars

\* ----------------------------------------------------------------- claims
Balance(d, i) == d[i].seeding_time_balance
Total(d, i) == d[i].total_seeding_time
InClaim(c) == claim[c].pc \in {"get_vip", "grant", "save"}

\* C1: with the handlers run one at a time, a claim whose grant call is
\* refused by any server ends there and leaves the table as it was; the only
\* step of a claim that changes the table is its save after every server
\* granted, and that step takes exactly the claimed hours off the stored
\* balance of the claimant's row and changes nothing else.
C1_SpendOnlyAfterAllGrants ==
    [][\A c \in ClaimSlots :
          InClaim(c) =>
             /\ (claim[c].pc = "grant" /\ claim'[c].refused # {})
                   => (claim'[c].pc = "done" /\ db' = db)
             /\ (db' # db)
                   => /\ claim[c].pc = "save"
                      /\ claim[c].granted = ServerSet
                      /\ claim[c].refused = {}
                      /\ db' = [db EXCEPT ![claim[c].player.id].seeding_time_balance =
                                   @ - MinutesPerHour * claim[c].hours]]_vars

\* A claim of 2 hours on a balance of 3 hours has been granted by both
\* servers and saved: 1 hour is left.
C1_Witness ==
    \E c \in ClaimSlots :
        /\ claim[c].pc = "done" /\ claim[c].reply = "added" /\ claim[c].hours = 2
        /\ Len(db) = 1 /\ Balance(db, 1) = 60 /\ ticks = 0

\* The minutes a step of the tick adds to row i (its save went through: the
\* table changed), and the minutes a step of a claim reported as successful
\* takes off it.
Accrued(i) ==
    IF tickPc = "save" /\ tickPc' # "save" /\ seeder.id = i
       /\ db' # db
    THEN SEEDING_INCREMENT_TIMER ELSE 0
Spending(i) ==
    {c \in ClaimSlots : /\ claim[c].pc = "save" /\ claim'[c].pc = "done"
                        /\ claim[c].reply = "added" /\ claim[c].player.id = i}
Spent(i) ==
    IF Spending(i) = {} THEN 0
    ELSE MinutesPerHour * claim[CHOOSE c \in Spending(i) : TRUE].hours

\* C2: under every interleaving, each step changes each stored balance by
\* exactly what it accrues minus what it spends (so that the final balance is
\* the initial one plus all accruals minus all successful spends), and a
\* spend is covered by the balance stored when it is applied.
C2_BalanceSerialized ==
    [][\A i \in Rows(db) :
          /\ Balance(db', i) = Balance(db, i) + Accrued(i) - Spent(i)
          /\ Spent(i) <= Balance(db, i)]_vars

AllEqual(vip_entries) ==
    \A k \in 1..Len(vip_entries) : vip_entries[k] = vip_entries[1]

\* C3: when the servers report privileges for the player that are not all
\* equal, the claim replies that they differ and goes no further; when they
\* are all equal it goes on with the agreed value.
C3_InconsistentStops ==
    [][\A c \in ClaimSlots :
          (claim[c].pc = "get_vip" /\ claim'[c].pc # "get_vip") =>
             LET vip_entries == VipEntries(claim[c].player.steam_id_64)
             IN  IF AllEqual(vip_entries)
                 THEN claim'[c].reply # "different" /\ claim'[c].vip = vip_entries[1]
                 ELSE claim'[c].pc = "done" /\ claim'[c].reply = "different"]_vars
\* What the log line of a refused grant tells about the servers: the loop
\* stops at the first refusal, so the servers before it granted and the one
\* named refused; nothing is told about the servers after it.
ReportedOutcomes(slot) ==
    {Servers[k] : k \in {j \in 1..Len(Servers) :
                            \E m \in j..Len(Servers) : Servers[m] = slot.logged}}

\* C4: when a grant call is refused by some server, either no server or every
\* server holds the new expiration once the claim has ended, or the outcome
\* of every server has been reported.
C4_NoUnreportedPartialGrant ==
    [][\A c \in ClaimSlots :
          (claim[c].pc = "grant" /\ claim'[c].pc = "done") =>
             LET steam == claim[c].player.steam_id_64
                 new == Expires(Strftime(claim[c].expiration))
                 holders == {e \in ServerSet : vip'[e][steam] = new}
             IN  (holders # {} /\ holders # ServerSet)
                    => ReportedOutcomes(claim'[c]) = ServerSet]_vars

\* C5: every stored balance is at least zero, in every state of every
\* interleaving of ticks, registrations and claims.
C5_BalanceNonNegative ==
    \A i \in Rows(db) : Balance(db, i) >= 0

\* A tick has brought a balance to one hour and a claim of that hour has been
\* saved: the balance is spent to zero.
C5_Witness ==
    /\ ticks >= 1
    /\ \E c \in ClaimSlots :
          /\ claim[c].pc = "done" /\ claim[c].reply = "added" /\ claim[c].hours = 1
    /\ \E i \in Rows(db) : Balance(db, i) = 0 /\ Total(db, i) = 60

\* C6: a claim is turned down for lack of balance exactly when the hours
\* asked for exceed the balance of the record it loaded.
C6_RejectedIffExceeds ==
    \A c \in ClaimSlots :
        /\ claim[c].reply = "not_enough" =>
              MinutesPerHour * claim[c].hours > claim[c].player.seeding_time_balance
        /\ claim[c].pc = "get_vip" =>
              MinutesPerHour * claim[c].hours <= claim[c].player.seeding_time_balance

C8_TotalNeverDecreases ==
    [][\A i \in Rows(db) : Total(db', i) >= Total(db, i)]_vars

\* C9: with the reward message allowed, the step that saves an accrual goes
\* on to send the message exactly when the balance holds more whole hours
\* after the increment than before it.
C9_MessageIffHourGained ==
    [][(tickPc = "save" /\ allowMessage) =>
          ((tickPc' = "message") <=>
              (seeder.seeding_time_balance \div MinutesPerHour
                  > old_seed_balance \div MinutesPerHour))]_vars

\* C10: with the handlers run one at a time, a registration of a steam id
\* whose record is linked to another caller is refused and one whose record
\* is linked to the caller is acknowledged, neither changing the table;
\* otherwise its save appends a record linked to the caller with balance and
\* total zero, or sets the link of the unlinked record and nothing else.
C10_Register ==
    [][\A r \in RegSlots :
          /\ (commands' = commands + 1 /\ reg'[r].n = commands') =>
                LET caller == reg'[r].caller
                    rows == {i \in Rows(db) : db[i].steam_id_64 = reg'[r].steam64}
                IN  /\ db' = db
                    /\ (\E i \in rows : db[i].discord_id \notin {None, caller})
                          => (reg'[r].pc = "done" /\ reg'[r].reply = "someone_else")
                    /\ (\E i \in rows : db[i].discord_id = caller)
                          => (reg'[r].pc = "done" /\ reg'[r].reply = "already_yours")
                    /\ (\A i \in rows : db[i].discord_id = None)
                          => reg'[r].pc = "save"
          /\ (reg[r].pc = "save" /\ reg'[r].pc = "done") =>
                LET caller == reg[r].caller
                    rows == {i \in Rows(db) : db[i].steam_id_64 = reg[r].steam64}
                IN  /\ reg'[r].reply = "registered"
                    /\ IF rows = {}
                       THEN db' = Append(db, [steam_id_64 |-> reg[r].steam64,
                                              discord_id |-> caller,
                                              seeding_time_balance |-> 0,
                                              total_seeding_time |-> 0])
                       ELSE \E i \in rows :
                               db' = [db EXCEPT ![i].discord_id = caller]]_vars

\* A record the tick created and accrued on has been linked by a
\* registration, its balance and total kept.
C10_Witness ==
    \E r \in RegSlots :
        /\ reg[r].pc = "done" /\ reg[r].reply = "registered"
        /\ reg[r].player.id = 1 /\ reg[r].caller = "d2"
        /\ db[1] = [steam_id_64 |-> S1, discord_id |-> "d2",
                    seeding_time_balance |-> SEEDING_INCREMENT_TIMER,
                    total_seeding_time |-> SEEDING_INCREMENT_TIMER]

\* C11: under every interleaving of registrations, ticks and claims, a link
\* that is stored is kept: no step changes a stored discord_id that is set,
\* neither to another value nor back to none.
C11_LinkSetOnce ==
    [][\A i \in Rows(db) :
          db[i].discord_id # None => db'[i].discord_id = db[i].discord_id]_vars

\* C12: in every state no two records hold the same discord_id that is set.
C12_OneRecordPerDiscordId ==
    \A i, j \in Rows(db) :
        (db[i].discord_id # None /\ db[i].discord_id = db[j].discord_id) => i = j

\* C13: in every state of every interleaving no two records hold the same
\* steam_id_64.
C13_OneRecordPerSteamId ==
    \A i, j \in Rows(db) : db[i].steam_id_64 = db[j].steam_id_64 => i = j

\* A tick starts: its gating check runs in this step.
TickStarts == ticks' = ticks + 1

\* C14: when both bounds of the window are times, the gating check of a tick
\* finds the window active exactly when start <= now <= end for start <= end,
\* and exactly when now >= start or now < end for start > end; a window
\* whose bounds are both t is active at t.
C14_GateIsWindowContainment ==
    [][(TickStarts /\ window.start.kind = "time" /\ window.end.kind = "time") =>
          LET start == window.start.at
              end == window.end.at
              now == gate'.time_now
              active == gate'.outcome = "inside"
          IN  /\ gate'.outcome \in {"inside", "outside"}
              /\ now \in TimesOfDay
              /\ (start <= end) => (active <=> (start <= now /\ now <= end))
              /\ (start > end) => (active <=> (now >= start \/ now < end))
              /\ (start = now /\ end = now) => active]_vars

\* A window that crosses midnight has been found active before its end and
\* inactive at its end.
C14_Witness ==
    /\ ticks = 2 /\ tickPc = "idle"
    /\ window = [start |-> At(2), end |-> At(1)]
    /\ gate.outcome = "outside" /\ gate.time_now = 1
    /\ db = <<[steam_id_64 |-> S1, discord_id |-> "d1",
               seeding_time_balance |-> 60, total_seeding_time |-> 60]>>

\* The tick went on to ask the servers for their players.
Polled ==
    /\ gate'.outcome = "given_up"
    /\ \E result \in PollResults : tickWork' = WorkOf(result, 1)

Entries(c) == VipEntries(claim[c].player.steam_id_64)
Agreed(c) == AllEqual(Entries(c))
CurrentNeverExpires(c) ==
    Entries(c)[1].present /\ Entries(c)[1].vip_expiration >= NonExpiring
Base(c) ==
    IF Entries(c)[1].present /\ Entries(c)[1].vip_expiration > Now
    THEN Entries(c)[1].vip_expiration ELSE Now
ReadsVip(c) == claim[c].pc = "get_vip" /\ claim'[c].pc # "get_vip"

\* C16: when the servers agree on a privilege that is not non-expiring, the
\* expiration the claim computes is the base (the current expiration when
\* there is one later than now, now otherwise) plus the hours claimed times
\* the rate, and every server that grants holds that instant, to the second.
C16_ExpirationFromBase ==
    [][\A c \in ClaimSlots :
          /\ (ReadsVip(c) /\ Agreed(c) /\ ~CurrentNeverExpires(c)) =>
                claim'[c].expiration =
                    Base(c) + Hours(SeederVipRewardHours * claim[c].hours)
          /\ (claim[c].pc = "grant" /\ claim'[c].pc # "grant") =>
                \A e \in claim'[c].granted :
                    LET held == vip'[e][claim[c].player.steam_id_64]
                    IN  /\ held.present
                        /\ held.vip_expiration <= claim[c].expiration
                        /\ claim[c].expiration - held.vip_expiration < 2]_vars

\* A claim of 2 hours on a privilege that expired more than an hour ago has
\* been granted and saved: both servers hold now + 2 hours.
C16_Witness ==
    /\ \E c \in ClaimSlots :
          claim[c].pc = "done" /\ claim[c].reply = "added" /\ claim[c].hours = 2
    /\ \A e \in ServerSet : vip[e][S1] = Expires(Now - 1 + Hours(2))
    /\ Len(db) = 1 /\ Balance(db, 1) = 1437 - 2 * MinutesPerHour

\* C17: with the handlers run one at a time, a claim by a player whose
\* privilege the servers agree does not expire issues no grant call and
\* leaves every stored balance and total, and every privilege, as they were.
C17_NonExpiringNoOp ==
    [][\A c \in ClaimSlots :
          (InClaim(c) /\ Agreed(c) /\ CurrentNeverExpires(c)) =>
             /\ claim'[c].pc # "grant"
             /\ vip' = vip
             /\ \A i \in Rows(db) : /\ Balance(db', i) = Balance(db, i)
                                    /\ Total(db', i) = Total(db, i)]_vars

\* C18: when the servers agree on a privilege that is not non-expiring and
\* the expiration computed from it is at or after the sentinel date, the
\* claim goes on to the grant call.
C18_GrantBeyondSentinel ==
    [][\A c \in ClaimSlots :
          (/\ ReadsVip(c) /\ Agreed(c) /\ ~CurrentNeverExpires(c)
           /\ Base(c) + Hours(SeederVipRewardHours * claim[c].hours) >= NonExpiring)
             => claim'[c].pc = "grant"]_vars

\* A step of the tick's loop over the players.
LoopStep == tickPc \in {"create", "save"} /\ tickPc' # tickPc

\* C19: a save of the tick that fails, of a new record or of an accrual,
\* leaves the table as it was and does not end the tick: the loop goes on
\* with the reward check or with the next player of the poll.
C19_SaveFailureIsolated ==
    [][(LoopStep /\ db' = db) =>
          \/ tickPc' = "message" /\ tickWork' = tickWork
          \/ tickWork' = Tail(tickWork)]_vars

\* C20: with the handlers run one at a time, a tick whose gate is inactive
\* asks no server and changes no record; a poll leaves no player of a server
\* at or above the threshold to be handled; and a step of the tick changes
\* the table only with the gate not inactive, and only in the one record,
\* new or old, that holds the steam id of the player being handled.
C20_TickFrame ==
    [][/\ (TickStarts /\ gate'.outcome = "outside") =>
             (db' = db /\ tickWork' = <<>> /\ tickPc' = "idle")
       /\ TickStarts =>
             \A e \in ServerSet :
                Cardinality({k \in 1..Len(tickWork') : tickWork'[k].server = e})
                    < SeedingThreshold
       /\ (LoopStep /\ db' # db) =>
             /\ gate.outcome # "outside"
             /\ \E i \in Rows(db') :
                   /\ db'[i].steam_id_64 = Head(tickWork).steam_id_64
                   /\ \A j \in Rows(db') \ {i} : j \in Rows(db) /\ db'[j] = db[j]]_vars

\* The base of the expiration of claim c, from the privilege it read.
BaseRead(c) ==
    IF claim[c].vip.present /\ claim[c].vip.vip_expiration > Now
    THEN claim[c].vip.vip_expiration ELSE Now

\* C21: with the handlers run one at a time and for every hours argument,
\* zero and negative ones included, the save of a claim leaves no stored
\* balance higher than it was, and an expiration a server is granted is, to
\* the second, not earlier than the base it was computed from.
C21_ClaimNeverGives ==
    [][\A c \in ClaimSlots :
          /\ (claim[c].pc = "save" /\ claim'[c].pc = "done") =>
                \A i \in Rows(db) : Balance(db', i) <= Balance(db, i)
          /\ (claim[c].pc = "grant" /\ claim'[c].pc # "grant") =>
                \A e \in claim'[c].granted :
                    vip'[e][claim[c].player.steam_id_64].vip_expiration
                        >= Strftime(BaseRead(c))]_vars
====
